---- MODULE Spec2Model ----
(***************************************************************************)
(* A model of parcp: CellProfilerImages.split_images and get_object_name   *)
(* (parcp/cpimages.py) and ParallelCellProfiler.run_batches, run_batch,    *)
(* merge_results and merge_object_results (parcp/__init__.py).             *)
(*                                                                         *)
(* A filename is a sequence of tokens.  The tokens are the strings "A",    *)
(* "B", "C", "d0", "d1", "d4" and ".png"; no token is a prefix of another  *)
(* and the letter d occurs only at the start of a channel token, so the    *)
(* occurrences of a channel token in the string are exactly its            *)
(* occurrences in the token sequence, and the order of the strings is the  *)
(* lexicographic order of the token sequences.                             *)
(***************************************************************************)
EXTENDS Integers, Sequences, FiniteSets, TLC

\* ------------------------------------------------------------ bounds
\* The most entries of the images directory.
MaxFiles == 8
\* The largest image_set_size_per_batch setting.
MaxBatchSize == 3

\* ------------------------------------------------------------ strings
ChannelTokens == {"d0", "d1", "d4"}

\* The characters of a channel token.
TokenChars ==
    [t \in ChannelTokens |->
        CASE t = "d0" -> <<"d", "0">>
          [] t = "d1" -> <<"d", "1">>
          [] OTHER    -> <<"d", "4">>]

\* The place of a token in the order of the strings.
TokRank ==
    [t \in {".png", "A", "B", "C", "d0", "d1", "d4"} |->
        CASE t = ".png" -> 0
          [] t = "A"    -> 1
          [] t = "B"    -> 2
          [] t = "C"    -> 3
          [] t = "d0"   -> 4
          [] t = "d1"   -> 5
          [] OTHER      -> 6]

\* a < b for two strings (Python's comparison of str).
RECURSIVE StrLess(_, _)
StrLess(a, b) ==
    IF a = <<>> THEN b # <<>>
    ELSE IF b = <<>> THEN FALSE
    ELSE IF Head(a) = Head(b) THEN StrLess(Tail(a), Tail(b))
    ELSE TokRank[Head(a)] < TokRank[Head(b)]

\* s.replace(old, '', count): the first count occurrences of old removed, all
\* of them when count is negative.
RECURSIVE Replace(_, _, _)
Replace(s, old, count) ==
    IF s = <<>> \/ count = 0 THEN s
    ELSE IF Head(s) = old THEN Replace(Tail(s), old, count - 1)
    ELSE <<Head(s)>> \o Replace(Tail(s), old, count)

\* key in s, for two strings given by their characters.
IsSubstring(key, s) ==
    \E i \in 0..(Len(s) - Len(key)) : SubSeq(s, i + 1, i + Len(key)) = key

\* sorted(group, key=lambda k: k['filename']): the records in increasing order
\* of filename (the names of a directory are distinct).
RECURSIVE SortByFilename(_)
SortByFilename(records) ==
    IF records = {} THEN <<>>
    ELSE LET m == CHOOSE x \in records :
                    \A y \in records : x = y \/ StrLess(x.filename, y.filename)
         IN  <<m>> \o SortByFilename(records \ {m})

\* sorted(keys): the 'group by' values in increasing order.
RECURSIVE SortKeys(_)
SortKeys(keys) ==
    IF keys = {} THEN <<>>
    ELSE LET m == CHOOSE x \in keys : \A y \in keys : TokRank[x] <= TokRank[y]
         IN  <<m>> \o SortKeys(keys \ {m})

\* ------------------------------------------------------------ the images
\* The names an images directory may hold: a prefix, a channel and the
\* extension, and one name the filter does not match.
Prefixes == {<<"A">>, <<"B">>, <<"C">>, <<"d0">>}

FileUniverse ==
    {p \o <<c, ".png">> : p \in Prefixes, c \in ChannelTokens} \cup {<<"A", ".png">>}

\* Where '(?P<Channel>d\d)(\.png|\.tiff?)' matches in a name.
MatchPositions(f) ==
    {i \in 1..(Len(f) - 1) : f[i] \in ChannelTokens /\ f[i + 1] = ".png"}

MaxOf(S) == CHOOSE x \in S : \A y \in S : y <= x

\* get_image_files: the metadata of every matching name.  '.*' is greedy, so
\* the group is the last match.
get_image_files(listing) ==
    {[filename |-> f, Channel |-> f[MaxOf(MatchPositions(f))]] :
        f \in {g \in listing : MatchPositions(g) # {}}}

\* image_groups: each 'group by' value with its records sorted by filename.
ImageGroups(image_files) ==
    [k \in {m.Channel : m \in image_files} |->
        SortByFilename({m \in image_files : m.Channel = k})]

\* group_keys = sorted(image_groups.keys())
GroupKeys(image_groups) == SortKeys(DOMAIN image_groups)

\* The mutant of AllGroupsSameSize: no group is smaller than the first.
AllGroupsAtLeastFirst(image_groups) ==
    LET group_keys == GroupKeys(image_groups)
        image_group_size == Len(image_groups[group_keys[1]])
    IN  \A key \in DOMAIN image_groups :
            Len(image_groups[key]) >= image_group_size

\* all([len(image_groups[key]) == image_group_size for key in image_groups])
AllGroupsSameSize(image_groups) ==
    LET group_keys == GroupKeys(image_groups)
        image_group_size == Len(image_groups[group_keys[1]])
    IN  \A key \in DOMAIN image_groups :
            Len(image_groups[key]) = image_group_size

\* ------------------------------------------------------------ object names
\* The default group_key_map, in the order the mapping is iterated.
group_key_mapping ==
    << <<(<<"0">>), "OrigBlue">>, <<(<<"1">>), "OrigGreen">>,
       <<(<<"2">>), "OrigRed">>, <<(<<"3">>), "OrigFarRed">> >>

\* The loop of get_object_name over a mapping whose iteration gives the
\* (key, name) pairs `items`: the name of the first key that occurs in
\* group_key, or "KeyError".
ObjectNameInOrder(items, group_key) ==
    LET hits == {i \in 1..Len(items) :
                    IsSubstring(items[i][1], TokenChars[group_key])}
    IN  IF hits = {} THEN "KeyError"
        ELSE items[CHOOSE i \in hits : \A j \in hits : i <= j][2]

\* get_object_name with the default mapping.
get_object_name(group_key) == ObjectNameInOrder(group_key_mapping, group_key)

\* ------------------------------------------------------------ state
VARIABLES
    images_dir,                 \* the names os.listdir(image_files_path) returns
    image_set_size_per_batch,   \* the setting, as an integer
    set_num,                    \* CellProfilerImages.set_num
    saved_csv_files,            \* CellProfilerImages.saved_csv_files
    csv_files,                  \* the files under file_lists_path, by name
    image_set,                  \* split_images' local list of image entries
    step,                       \* split_images' loop variable
    split_pc,                   \* "start", "loop", "done" or "failed"
    split_error,                \* the exception that ended split_images
    results_dir,                \* the names os.listdir(results_path) returns
    result_tables,              \* results/<index>/Cells.csv, by index
    result_indexes,             \* ParallelCellProfiler.result_indexes
    object_names,               \* merge_results' local list of object names
    object_pos,                 \* the place of merge_results' loop in it
    merged_csv,                 \* the file results/Cells.csv
    merged_header,              \* merge_object_results' locals, and the
    image_count,                \*   place of its loop in result_indexes
    object_count,
    index_pos,
    merge_pc,                   \* "start", "objects", "batches", "done", "failed"
    merge_error,                \* the exception that ended merge_results
    run_image_groups,           \* run_batches' local list image_groups
    group_index,                \* run_batches' loop variable
    invocations,                \* the runs of the external tool so far
    run_pc,                     \* "start", "loop", "done" or "failed"
    run_error,                  \* the exception that ended run_batches
    key_mapping,                \* the setting group_key_map, a dictionary
    key_calls                   \* get_object_name's calls, one in each run
                                \*   of the program with these settings

split_vars ==
    <<images_dir, image_set_size_per_batch, set_num, saved_csv_files,
      csv_files, image_set, step, split_pc, split_error>>

merge_vars ==
    <<results_dir, result_tables, result_indexes, object_names, object_pos,
      merged_csv, merged_header, image_count, object_count, index_pos,
      merge_pc, merge_error>>

run_vars == <<run_image_groups, group_index, invocations, run_pc, run_error>>

key_vars == <<key_mapping, key_calls>>

other_vars == <<run_vars, key_vars>>

\* ------------------------------------------------------------ save_as_csv_list
\* csv_template % {'set_num': n}, for the default template.
CsvFilename(n) == <<"image_set_", n, ".csv">>

\* The header save_as_csv_list builds from the first image entry: for each
\* member, the column of its filename and the column of its Channel.
CsvHeader(image_entry) ==
    [i \in 1..(2 * Len(image_entry)) |->
        LET objectname == get_object_name(image_entry[(i + 1) \div 2].Channel)
        IN  IF i % 2 = 1 THEN <<"Image_FileName_", objectname>>
            ELSE <<"Metadata_", "Channel", "_", objectname>>]

\* The row csv.DictWriter writes for an image entry: under each column of the
\* header the value the row dictionary holds for it, which is the one of the
\* last member mapped to that column.
CsvRow(header, image_entry) ==
    [i \in 1..Len(header) |->
        LET n == MaxOf({m \in 1..Len(image_entry) :
                          header[2 * m - 1] = header[i] \/ header[2 * m] = header[i]})
        IN  IF header[2 * n - 1] = header[i] THEN image_entry[n].filename
            ELSE image_entry[n].Channel]

\* What save_as_csv_list writes for a list of image entries.
CsvContent(entries) ==
    LET header == CsvHeader(entries[1])
    IN  [header |-> header,
         rows |-> [r \in 1..Len(entries) |-> CsvRow(header, entries[r])]]

\* A file opened for writing and left as it was created.
EmptyFile == [header |-> <<>>, rows |-> <<>>]

\* Whether get_object_name raises for a member of the list.
SaveRaises(entries) ==
    \E r \in 1..Len(entries) : \E n \in 1..Len(entries[r]) :
        get_object_name(entries[r][n].Channel) = "KeyError"

WriteFile(files, name, content) ==
    [x \in (DOMAIN files) \cup {name} |-> IF x = name THEN content ELSE files[x]]

\* save_as_csv_list(file_lists_path, entries), next_csv_filename included; the
\* caller goes on at next_pc unless get_object_name raises.
save_as_csv_list(entries, next_pc) ==
    /\ set_num' = set_num + 1
    /\ saved_csv_files' = Append(saved_csv_files, CsvFilename(set_num))
    /\ IF SaveRaises(entries)
       THEN /\ csv_files' = WriteFile(csv_files, CsvFilename(set_num), EmptyFile)
            /\ split_pc' = "failed"
            /\ split_error' = "KeyError"
       ELSE /\ csv_files' =
                  WriteFile(csv_files, CsvFilename(set_num), CsvContent(entries))
            /\ split_pc' = next_pc
            /\ UNCHANGED split_error

\* ------------------------------------------------------------ split_images
\* shared_image_name: every occurrence of the 'group by' value removed from
\* the filename of the first group's member.
SharedImageName(metadata) ==
    Replace(metadata.filename, metadata.Channel, -1)

\* metadata['filename'].replace(metadata[self.group_by_field], '', 1)
MemberBaseName(metadata) ==
    Replace(metadata.filename, metadata.Channel, 1)

\* The mutant of FlushNeeded: a batch is flushed one image set late.
FlushNeededLate(entries) == Len(entries) > image_set_size_per_batch

\* len(image_set) >= self.image_set_size_per_batch
FlushNeeded(entries) == Len(entries) >= image_set_size_per_batch

\* The mutant of AfterFlush: the flushed entries stay in the list.
AfterFlushKept(entries) == entries

\* image_set = list(), after a batch is saved
AfterFlush(entries) == <<>>

\* The mutant of FinalFlushNeeded: the last partial batch is dropped.
FinalFlushNever(entries) == FALSE

\* len(image_set) > 0, after the loop
FinalFlushNeeded(entries) == Len(entries) > 0

\* The groups and keys split_images builds from the directory.
image_groups == ImageGroups(get_image_files(images_dir))
group_keys == GroupKeys(image_groups)
image_group_size == Len(image_groups[group_keys[1]])

\* split_images up to its loop: the listing, the grouping and the two checks.
SplitImagesBegin ==
    /\ split_pc = "start"
    /\ IF get_image_files(images_dir) = {}
       THEN /\ split_pc' = "failed"
            /\ split_error' = "NoImageFilesFound"
       ELSE IF ~AllGroupsSameSize(image_groups)
       THEN /\ split_pc' = "failed"
            /\ split_error' = "AssertionError: group sizes"
       ELSE /\ split_pc' = "loop"
            /\ UNCHANGED split_error
    /\ UNCHANGED <<images_dir, image_set_size_per_batch, set_num,
                   saved_csv_files, csv_files, image_set, step, merge_vars, other_vars>>

\* One pass of the loop over the positions of the groups.
SplitImagesStep ==
    /\ split_pc = "loop"
    /\ step < image_group_size
    /\ LET shared_image_name ==
               SharedImageName(image_groups[group_keys[1]][step + 1])
           image_entry ==
               [i \in 1..Len(group_keys) |-> image_groups[group_keys[i]][step + 1]]
           grown == Append(image_set, image_entry)
       IN  IF \E i \in 1..Len(group_keys) :
                  shared_image_name # MemberBaseName(image_entry[i])
           THEN /\ split_pc' = "failed"
                /\ split_error' = "AssertionError: filenames"
                /\ UNCHANGED <<set_num, saved_csv_files, csv_files, image_set, step>>
           ELSE IF FlushNeeded(grown)
           THEN /\ save_as_csv_list(grown, "loop")
                /\ image_set' = IF SaveRaises(grown) THEN grown ELSE AfterFlush(grown)
                /\ step' = IF SaveRaises(grown) THEN step ELSE step + 1
           ELSE /\ image_set' = grown
                /\ step' = step + 1
                /\ UNCHANGED <<set_num, saved_csv_files, csv_files, split_pc,
                               split_error>>
    /\ UNCHANGED <<images_dir, image_set_size_per_batch, merge_vars, other_vars>>

\* After the loop: the last, partial batch.
SplitImagesEnd ==
    /\ split_pc = "loop"
    /\ step = image_group_size
    /\ IF FinalFlushNeeded(image_set)
       THEN save_as_csv_list(image_set, "done")
       ELSE /\ split_pc' = "done"
            /\ UNCHANGED <<set_num, saved_csv_files, csv_files, split_error>>
    /\ UNCHANGED <<images_dir, image_set_size_per_batch, image_set, step,
                   merge_vars, other_vars>>

\* ------------------------------------------------------------ the results
\* The most batch directories under the results root, the most data rows of
\* one result table and the most data rows of all of them together.
MaxBatches == 2
MaxRows == 3
MaxTotalRows == 5

\* The local image indexes a row may carry, and the two header lines a table
\* may start with.
ImageIndexes == {1, 2}
UsualHeader == "ImageNumber,ObjectNumber,Area"
OtherHeader == "ImageNumber,ObjectNumber,Perimeter"

DigitChars == {"0", "1", "2", "3", "4", "5", "6", "7", "8", "9"}

DigitValue ==
    [c \in DigitChars |->
        CASE c = "0" -> 0 [] c = "1" -> 1 [] c = "2" -> 2 [] c = "3" -> 3
          [] c = "4" -> 4 [] c = "5" -> 5 [] c = "6" -> 6 [] c = "7" -> 7
          [] c = "8" -> 8 [] OTHER -> 9]

\* name.isdigit(), for a name given by its characters
IsDigit(name) == name # <<>> /\ \A i \in 1..Len(name) : name[i] \in DigitChars

\* int(name), for a name of digits
RECURSIVE IntOf(_)
IntOf(name) ==
    IF name = <<>> THEN 0
    ELSE 10 * IntOf(SubSeq(name, 1, Len(name) - 1)) + DigitValue[name[Len(name)]]

\* str(index), for an index below 10: the name of the directory run_batch
\* makes for a batch.
StrOfIndex(index) == <<CHOOSE c \in DigitChars : DigitValue[c] = index>>

\* str(n), for any n >= 0
RECURSIVE StrOfInt(_)
StrOfInt(n) ==
    IF n < 10 THEN StrOfIndex(n)
    ELSE StrOfInt(n \div 10) \o StrOfIndex(n % 10)

\* A result table of batch `index` with the given header and local image
\* indexes.  The object index of a row counts the rows of its image so far;
\* the rest of a row is text no other row has.
ResultTable(index, header, image_indexes) ==
    [header |-> header,
     rows |-> [j \in 1..Len(image_indexes) |->
                 [image_index |-> image_indexes[j],
                  object_index |-> Cardinality({i \in 1..j :
                                      image_indexes[i] = image_indexes[j]}),
                  rest |-> <<"measurements", index, j>>]]]

\* The sequences of at most n elements of S.
SeqsUpTo(S, n) == UNION {[1..m -> S] : m \in 0..n}

\* The orders a directory listing may give a set of names in.
Listings(names) ==
    {l \in [1..Cardinality(names) -> names] :
        \A i, j \in 1..Cardinality(names) : l[i] = l[j] => i = j}

RECURSIVE SumOver(_, _)
SumOver(f, S) ==
    IF S = {} THEN 0
    ELSE LET x == CHOOSE y \in S : TRUE IN f[x] + SumOver(f, S \ {x})

\* ------------------------------------------------------------ merge_object_results
\* The mutant of NewImage: a row of the image seen last counts as a new one.
NewImageOrSame(image_index, prev_img_count) == image_index >= prev_img_count

\* image_index > prev_img_count
NewImage(image_index, prev_img_count) == image_index > prev_img_count

\* The mutant of ObjectCountAtBatch: the counter starts again in each batch.
ObjectCountReset(count) == 0

\* object_count is set before the loop over the batches and not in it.
ObjectCountAtBatch(count) == count

\* The mutant of ImageCountAtBatch: the counter starts again in each batch.
ImageCountReset(count) == 0

\* image_count is set before the loop over the batches and not in it.
ImageCountAtBatch(count) == count

\* The mutant of HeaderAccepted: any header passes.
HeaderAcceptedAlways(header, stored) == TRUE

\* merged_header is None, or assert header == merged_header
HeaderAccepted(header, stored) == stored = "None" \/ header = stored

\* The loop over the data lines of one batch: the lines written and the
\* counters after them.
RECURSIVE MergeLines(_, _, _, _)
MergeLines(rows, prev_img_count, images, objects) ==
    IF rows = <<>>
    THEN [lines |-> <<>>, image_count |-> images, object_count |-> objects]
    ELSE LET row == Head(rows)
             fresh == NewImage(row.image_index, prev_img_count)
             images2 == IF fresh THEN images + 1 ELSE images
             later == MergeLines(Tail(rows),
                                 IF fresh THEN row.image_index ELSE prev_img_count,
                                 images2, objects + 1)
         IN  [later EXCEPT !.lines = << <<images2, objects + 1, row.rest>> >> \o @]

\* merge_object_results('Image'): merge_image_results does nothing.
MergeImageResults ==
    /\ merge_pc = "objects"
    /\ object_pos <= Len(object_names)
    /\ object_names[object_pos] = "Image"
    /\ object_pos' = object_pos + 1
    /\ UNCHANGED <<split_vars, other_vars, results_dir, result_tables, result_indexes, object_names,
                   merged_csv, merged_header, image_count, object_count,
                   index_pos, merge_pc, merge_error>>

\* merge_object_results up to its loop: the merged file is opened with 'w+'.
MergeObjectOpen ==
    /\ merge_pc = "objects"
    /\ object_pos <= Len(object_names)
    /\ object_names[object_pos] # "Image"
    /\ merged_csv' = [exists |-> TRUE, lines |-> <<>>]
    /\ merged_header' = "None"
    /\ image_count' = 0
    /\ object_count' = 0
    /\ index_pos' = 1
    /\ merge_pc' = "batches"
    /\ UNCHANGED <<split_vars, other_vars, results_dir, result_tables, result_indexes, object_names,
                   object_pos, merge_error>>

\* One pass of the loop over result_indexes: a batch's table is opened, its
\* header checked or stored, and its data lines renumbered and written.
MergeBatch ==
    /\ merge_pc = "batches"
    /\ index_pos <= Len(result_indexes)
    /\ LET index == result_indexes[index_pos]
       IN  IF index \notin DOMAIN result_tables
           THEN /\ merge_pc' = "failed"
                /\ merge_error' = "IOError"
                /\ UNCHANGED <<merged_csv, merged_header, image_count,
                               object_count, index_pos>>
           ELSE IF ~HeaderAccepted(result_tables[index].header, merged_header)
           THEN /\ merge_pc' = "failed"
                /\ merge_error' = "AssertionError: header"
                /\ UNCHANGED <<merged_csv, merged_header, image_count,
                               object_count, index_pos>>
           ELSE LET out == MergeLines(result_tables[index].rows, 0,
                                      ImageCountAtBatch(image_count),
                                      ObjectCountAtBatch(object_count))
                    head == IF merged_header = "None"
                            THEN <<result_tables[index].header>>
                            ELSE <<>>
                IN  /\ merged_header' = IF merged_header = "None"
                                        THEN result_tables[index].header
                                        ELSE merged_header
                    /\ merged_csv' = [merged_csv EXCEPT
                                         !.lines = @ \o head \o out.lines]
                    /\ image_count' = out.image_count
                    /\ object_count' = out.object_count
                    /\ index_pos' = index_pos + 1
                    /\ UNCHANGED <<merge_pc, merge_error>>
    /\ UNCHANGED <<split_vars, other_vars, results_dir, result_tables, result_indexes, object_names,
                   object_pos>>

\* After the loop: the merged file is closed.
MergeObjectClose ==
    /\ merge_pc = "batches"
    /\ index_pos > Len(result_indexes)
    /\ merge_pc' = "objects"
    /\ object_pos' = object_pos + 1
    /\ UNCHANGED <<split_vars, other_vars, results_dir, result_tables, result_indexes, object_names,
                   merged_csv, merged_header, image_count, object_count,
                   index_pos, merge_error>>

\* ------------------------------------------------------------ merge_results
\* [int(result_index) for result_index in os.listdir(...) if result_index.isdigit()]
ResultIndexes(listing) ==
    LET digits == SelectSeq(listing, IsDigit)
    IN  [i \in 1..Len(digits) |-> IntOf(digits[i])]

\* max(self.result_indexes) == len(self.result_indexes) - 1
IndexesConsequent(indexes) ==
    \A i \in 1..Len(indexes) :
        (\A j \in 1..Len(indexes) : indexes[j] <= indexes[i])
            => indexes[i] = Len(indexes) - 1

\* The object names glob finds under results/0: Image.csv and Cells.csv.
ObjectNames(listing) ==
    IF \E i \in 1..Len(listing) : listing[i] = StrOfIndex(0)
    THEN <<"Image", "Cells">>
    ELSE <<>>

\* merge_results up to its loop over the object names.
MergeResults ==
    /\ merge_pc = "start"
    /\ result_indexes' = ResultIndexes(results_dir)
    /\ IF result_indexes' = <<>>
       THEN /\ merge_pc' = "failed"
            /\ merge_error' = "ValueError"
            /\ UNCHANGED object_names
       ELSE IF ~IndexesConsequent(result_indexes')
       THEN /\ merge_pc' = "failed"
            /\ merge_error' = "AssertionError: indexes"
            /\ UNCHANGED object_names
       ELSE /\ merge_pc' = "objects"
            /\ object_names' = ObjectNames(results_dir)
            /\ UNCHANGED merge_error
    /\ UNCHANGED <<split_vars, other_vars, results_dir, result_tables, object_pos, merged_csv,
                   merged_header, image_count, object_count, index_pos>>

\* The loop over the object names has ended.
MergeResultsEnd ==
    /\ merge_pc = "objects"
    /\ object_pos > Len(object_names)
    /\ merge_pc' = "done"
    /\ UNCHANGED <<split_vars, other_vars, results_dir, result_tables, result_indexes, object_names,
                   object_pos, merged_csv, merged_header, image_count,
                   object_count, index_pos, merge_error>>

\* ------------------------------------------------------------ run_batches
\* The most batch files under image_groups_path when run_batches starts.
MaxRunBatches == 11

\* The exit statuses of the external tool.
ExitCodes == {0, 1}

\* The part of the path of a batch file in which two of them differ: the
\* digits of its number and the dot after them.
NameTail(name) == StrOfInt(name[2]) \o <<".">>

\* The place of a character in the order of the characters: '.' is before
\* the digits.
CharRank(c) == IF c = "." THEN -1 ELSE DigitValue[c]

\* a < b for two such strings (Python's comparison of str).
RECURSIVE CharsLess(_, _)
CharsLess(a, b) ==
    IF a = <<>> THEN b # <<>>
    ELSE IF b = <<>> THEN FALSE
    ELSE IF Head(a) = Head(b) THEN CharsLess(Tail(a), Tail(b))
    ELSE CharRank(Head(a)) < CharRank(Head(b))

\* sorted(image_groups): the paths in increasing order, as strings.
RECURSIVE SortedPaths(_)
SortedPaths(names) ==
    IF names = {} THEN <<>>
    ELSE LET m == CHOOSE x \in names :
                    \A y \in names : x = y \/ CharsLess(NameTail(x), NameTail(y))
         IN  <<m>> \o SortedPaths(names \ {m})

\* glob(os.path.join(image_groups_path, 'image_set_*.csv'))
GlobBatchFiles(files) ==
    {name \in DOMAIN files :
        Len(name) = 3 /\ name[1] = "image_set_" /\ name[3] = ".csv"}

\* The mutant of RunFailed: the exit status is ignored.
RunFailedNever(exit_code) == FALSE

\* result.exit_code != 0 (sh.Command raises for such a status as well).
RunFailed(exit_code) == exit_code # 0

\* os.makedirs(output_path) unless the path exists
MakeDirs(listing, name) ==
    IF \E i \in 1..Len(listing) : listing[i] = name THEN listing
    ELSE Append(listing, name)

\* run_batches up to its loop: the batch files found, sorted.
RunBatches ==
    /\ run_pc = "start"
    /\ run_image_groups' = SortedPaths(GlobBatchFiles(csv_files))
    /\ run_pc' = "loop"
    /\ UNCHANGED <<split_vars, merge_vars, group_index, invocations, run_error,
                   key_vars>>

\* One pass of the loop of run_batches: run_batch(pipeline_filepath,
\* group_index, image_group), the external tool ending with any exit status.
RunBatch ==
    /\ run_pc = "loop"
    /\ group_index < Len(run_image_groups)
    /\ \E exit_code \in ExitCodes :
          LET image_group == run_image_groups[group_index + 1]
              output_path == StrOfInt(group_index)
          IN  /\ results_dir' = MakeDirs(results_dir, output_path)
              /\ invocations' =
                    Append(invocations,
                           [group_index |-> group_index,
                            image_group |-> image_group,
                            output_path |-> output_path,
                            exit_code |-> exit_code])
              /\ IF RunFailed(exit_code)
                 THEN /\ run_pc' = "failed"
                      /\ run_error' = "Exception"
                      /\ UNCHANGED group_index
                 ELSE /\ group_index' = group_index + 1
                      /\ UNCHANGED <<run_pc, run_error>>
    /\ UNCHANGED <<split_vars, result_tables, result_indexes, object_names,
                   object_pos, merged_csv, merged_header, image_count,
                   object_count, index_pos, merge_pc, merge_error,
                   run_image_groups, key_vars>>

\* The loop of run_batches has ended.
RunBatchesEnd ==
    /\ run_pc = "loop"
    /\ group_index = Len(run_image_groups)
    /\ run_pc' = "done"
    /\ UNCHANGED <<split_vars, merge_vars, run_image_groups, group_index,
                   invocations, run_error, key_vars>>

\* ------------------------------------------------------------ get_object_name
\* The most calls of get_object_name followed.
MaxCalls == 2

\* The (key, name) pairs a group_key_map setting is made of.
KeyItems ==
    { <<(<<"0">>), "OrigBlue">>, <<(<<"1">>), "OrigGreen">>,
      <<(<<"d">>), "AnyChannel">>, <<(<<"d", "0">>), "Dapi">> }

\* get_object_name(group_key) in one run of the program: the loop meets the
\* items of the dictionary in an order the language leaves open (it follows
\* the hashes of the keys, which may differ from run to run).
GetObjectName ==
    /\ Len(key_calls) < MaxCalls
    /\ \E group_key \in ChannelTokens :
       \E items \in Listings(key_mapping) :
          key_calls' =
              Append(key_calls,
                     [group_key |-> group_key,
                      object_name |-> ObjectNameInOrder(items, group_key)])
    /\ UNCHANGED <<split_vars, merge_vars, run_vars, key_mapping>>

\* ------------------------------------------------------------ specifications
vars == <<split_vars, merge_vars, other_vars>>

\* A fresh CellProfilerImages.
SplitFresh ==
    /\ set_num = 0
    /\ saved_csv_files = <<>>
    /\ csv_files = <<>>
    /\ image_set = <<>>
    /\ step = 0
    /\ split_pc = "start"
    /\ split_error = "none"

\* A fresh ParallelCellProfiler, and no merged file.
MergeFresh ==
    /\ result_indexes = <<>>
    /\ object_names = <<>>
    /\ object_pos = 1
    /\ merged_csv = [exists |-> FALSE, lines |-> <<>>]
    /\ merged_header = "None"
    /\ image_count = 0
    /\ object_count = 0
    /\ index_pos = 1
    /\ merge_pc = "start"
    /\ merge_error = "none"

\* run_batches has not been called.
RunFresh ==
    /\ run_image_groups = <<>>
    /\ group_index = 0
    /\ invocations = <<>>
    /\ run_pc = "start"
    /\ run_error = "none"

\* The default group_key_map, and no call of get_object_name yet.
KeyFresh ==
    /\ key_mapping = {group_key_mapping[i] : i \in 1..Len(group_key_mapping)}
    /\ key_calls = <<>>

\* split_images: a fresh CellProfilerImages, any directory of at most
\* MaxFiles entries and any batch size; no results yet.
SplitInit ==
    /\ images_dir \in {d \in SUBSET FileUniverse : Cardinality(d) <= MaxFiles}
    /\ image_set_size_per_batch \in 1..MaxBatchSize
    /\ SplitFresh
    /\ results_dir = <<>>
    /\ result_tables = <<>>
    /\ MergeFresh
    /\ RunFresh
    /\ KeyFresh

SplitNext ==
    \/ SplitImagesBegin
    \/ SplitImagesStep
    \/ SplitImagesEnd

SpecSplit == SplitInit /\ [][SplitNext]_vars

\* merge_results: the results root holds some of the batch directories
\* 0 .. MaxBatches - 1, listed in any order, each with a result table of at
\* most MaxRows rows, MaxTotalRows together; at most one table has the other
\* header.
MergeInit ==
    /\ images_dir = {}
    /\ image_set_size_per_batch = 1
    /\ SplitFresh
    /\ \E present \in SUBSET (0..(MaxBatches - 1)) :
          /\ results_dir \in Listings({StrOfIndex(k) : k \in present})
          /\ \E odd \in present \cup {-1} :
             \E image_indexes \in [present -> SeqsUpTo(ImageIndexes, MaxRows)] :
                /\ SumOver([k \in present |-> Len(image_indexes[k])], present)
                      <= MaxTotalRows
                /\ result_tables =
                      [k \in present |->
                          ResultTable(k,
                              IF k = odd THEN OtherHeader ELSE UsualHeader,
                              image_indexes[k])]
    /\ MergeFresh
    /\ RunFresh
    /\ KeyFresh

MergeNext ==
    \/ MergeResults
    \/ MergeImageResults
    \/ MergeObjectOpen
    \/ MergeBatch
    \/ MergeObjectClose
    \/ MergeResultsEnd

SpecMerge == MergeInit /\ [][MergeNext]_vars

\* A batch file as split_images writes it: one ImageSet of one channel.
BatchFile ==
    CsvContent(<< <<[filename |-> <<"A", "d0", ".png">>, Channel |-> "d0"]>> >>)

\* run_batches: an earlier split_images has left the batch files
\* image_set_0.csv .. image_set_<K-1>.csv, K at most MaxRunBatches; the
\* results root is empty.
RunInit ==
    /\ images_dir = {}
    /\ image_set_size_per_batch = 1
    /\ set_num = 0
    /\ saved_csv_files = <<>>
    /\ \E K \in 0..MaxRunBatches :
          csv_files = [name \in {CsvFilename(k) : k \in 0..(K - 1)} |-> BatchFile]
    /\ image_set = <<>>
    /\ step = 0
    /\ split_pc = "start"
    /\ split_error = "none"
    /\ results_dir = <<>>
    /\ result_tables = <<>>
    /\ MergeFresh
    /\ RunFresh
    /\ KeyFresh

RunNext ==
    \/ RunBatches
    \/ RunBatch
    \/ RunBatchesEnd

SpecRun == RunInit /\ [][RunNext]_vars

\* get_object_name: any group_key_map made of KeyItems, with one name for a
\* key, and up to MaxCalls calls.
KeyInit ==
    /\ images_dir = {}
    /\ image_set_size_per_batch = 1
    /\ SplitFresh
    /\ results_dir = <<>>
    /\ result_tables = <<>>
    /\ MergeFresh
    /\ RunFresh
    /\ key_mapping \in SUBSET KeyItems
    /\ key_calls = <<>>

KeyNext == GetObjectName

SpecKeys == KeyInit /\ [][KeyNext]_vars

\* ------------------------------------------------------------ split_images: claims
\* The input as the claims speak of it.
ImageFiles == get_image_files(images_dir)
Channels == {m.Channel : m \in ImageFiles}
FilesOf(c) == {m \in ImageFiles : m.Channel = c}

\* The channel groups all have the same number of files.
Aligned ==
    /\ ImageFiles # {}
    /\ \A c1, c2 \in Channels : Cardinality(FilesOf(c1)) = Cardinality(FilesOf(c2))

\* T, the number of ImageSets of an aligned input.
TotalImageSets == Cardinality(ImageFiles) \div Cardinality(Channels)

CeilDiv(a, b) == (a + b - 1) \div b

\* The rows of the batch files image_set_0.csv .. image_set_<n-1>.csv, in
\* that order.
RECURSIVE BatchRows(_)
BatchRows(n) ==
    IF n = 0 THEN <<>>
    ELSE BatchRows(n - 1) \o csv_files[CsvFilename(n - 1)].rows

\* row is the row of the ImageSet at position i (from 1): for each channel, in
\* the order of the channels, the filename with exactly i - 1 smaller
\* filenames in its channel, then the channel.
IsRowOfImageSet(row, i) ==
    /\ Len(row) = 2 * Cardinality(Channels)
    /\ \A c \in Channels :
          LET j == Cardinality({c2 \in Channels : TokRank[c2] < TokRank[c]})
          IN  /\ [filename |-> row[2 * j + 1], Channel |-> c] \in ImageFiles
              /\ Cardinality({m \in FilesOf(c) :
                                StrLess(m.filename, row[2 * j + 1])}) = i - 1
              /\ row[2 * j + 2] = c

\* C1: a successful split_images of a fresh instance over T >= 1 aligned
\* ImageSets with batch size S > 0 has written exactly ceil(T / S) batch
\* files, and set_num is that count.
C1_BatchCount ==
    split_pc = "done" =>
        /\ Aligned
        /\ TotalImageSets >= 1
        /\ set_num = CeilDiv(TotalImageSets, image_set_size_per_batch)
        /\ Cardinality(DOMAIN csv_files) = set_num
        /\ Len(saved_csv_files) = set_num

\* Three ImageSets in batches of two: a full batch and a partial one.
C1_Witness ==
    /\ split_pc = "done"
    /\ TotalImageSets = 3
    /\ image_set_size_per_batch = 2
    /\ set_num = 2

\* C2: after a successful split_images the rows of the batch files, read in
\* batch-index order, are the ImageSets in their original order, one row each:
\* none dropped, none duplicated, none out of place.
C2_RoundTrip ==
    split_pc = "done" =>
        LET rows == BatchRows(set_num)
        IN  /\ Len(rows) = TotalImageSets
            /\ \A i \in 1..Len(rows) : IsRowOfImageSet(rows[i], i)

\* Two channels of three files in batches of two.
C2_Witness ==
    /\ split_pc = "done"
    /\ Cardinality(Channels) = 2
    /\ TotalImageSets = 3
    /\ image_set_size_per_batch = 2
    /\ Len(BatchRows(set_num)) = 3

\* C3: at any moment the k-th batch file written has index k, holds between 1
\* and S consecutive ImageSets starting at position k * S, and holds exactly S
\* of them unless it is the last one.  (A file that save_as_csv_list created
\* and then left without a header, because get_object_name raised, is no
\* batch; it is the last file and the call has failed.)
C3_BatchShape ==
    /\ Len(saved_csv_files) = set_num
    /\ DOMAIN csv_files = {CsvFilename(k) : k \in 0..(set_num - 1)}
    /\ \A k \in 0..(set_num - 1) :
          /\ saved_csv_files[k + 1] = CsvFilename(k)
          /\ IF csv_files[CsvFilename(k)] = EmptyFile
             THEN /\ k = set_num - 1
                  /\ split_pc = "failed"
                  /\ split_error = "KeyError"
             ELSE LET rows == csv_files[CsvFilename(k)].rows
                  IN  /\ Len(rows) >= 1
                      /\ Len(rows) <= image_set_size_per_batch
                      /\ k < set_num - 1 => Len(rows) = image_set_size_per_batch
                      /\ \A j \in 1..Len(rows) :
                            IsRowOfImageSet(rows[j], k * image_set_size_per_batch + j)

\* A full batch followed by a partial last batch.
C3_Witness ==
    /\ split_pc = "done"
    /\ set_num = 2
    /\ image_set_size_per_batch = 3
    /\ Len(csv_files[CsvFilename(0)].rows) = 3
    /\ Len(csv_files[CsvFilename(1)].rows) = 1

\* Two channel groups differ in size.
Unaligned ==
    \E c1, c2 \in Channels : Cardinality(FilesOf(c1)) # Cardinality(FilesOf(c2))

\* C4: when the channel groups differ in size, every step of split_images
\* ends the call as failed and leaves set_num, saved_csv_files and the batch
\* files as they were.
C4_UnalignedWritesNothing ==
    [][Unaligned =>
          /\ split_pc' = "failed"
          /\ set_num' = set_num
          /\ saved_csv_files' = saved_csv_files
          /\ csv_files' = csv_files]_vars

\* The call has failed on groups of different sizes.
C4_Witness ==
    /\ Unaligned
    /\ split_pc = "failed"
    /\ split_error = "AssertionError: group sizes"
    /\ set_num = 0
    /\ \E c1, c2 \in Channels :
          Cardinality(FilesOf(c1)) = 2 /\ Cardinality(FilesOf(c2)) = 1

\* The members at position p (from 0) have the same base name when the
\* 'group by' value is removed once, at its first occurrence, from each.
FirstOccurrenceBasesEqual(p) ==
    \A c1, c2 \in Channels :
        Replace(image_groups[c1][p + 1].filename, c1, 1)
            = Replace(image_groups[c2][p + 1].filename, c2, 1)

\* C5: split_images accepts a position exactly when the first-occurrence base
\* names of its members are identical: every position accepted so far has
\* identical ones, and the position the filename check failed at has not.
C5_AcceptIffFirstOccurrenceBasesEqual ==
    (split_pc # "start" /\ Aligned) =>
        /\ \A p \in 0..(step - 1) : FirstOccurrenceBasesEqual(p)
        /\ split_error = "AssertionError: filenames"
              => ~FirstOccurrenceBasesEqual(step)

\* ------------------------------------------------------------ merge: claims
\* The data lines of the merged file (its first line is the header), and the
\* batch, the line in the batch's table and the local image index a data line
\* was made from.
DataLines == SubSeq(merged_csv.lines, 2, Len(merged_csv.lines))
BatchOf(line) == line[3][2]
RowOf(line) == line[3][3]
LocalImageIndex(line) == result_tables[BatchOf(line)].rows[RowOf(line)].image_index

\* The batches whose data lines have been written.
BatchesDone == index_pos - 1

\* merge_object_results has run through all of result_indexes.
MergedAll == merged_csv.exists /\ index_pos > Len(result_indexes)

\* R, the data rows of all the result tables.
TotalRows ==
    SumOver([k \in DOMAIN result_tables |-> Len(result_tables[k].rows)],
            DOMAIN result_tables)

\* C6: the ObjectNumber column of the merged file is 1, 2, 3, ... in row
\* order, whatever the local indexes and across the batch boundaries; after a
\* merge of all batches the last ObjectNumber is R, the number of data rows of
\* all the tables.
C6_ObjectNumbers ==
    merged_csv.exists =>
        /\ \A i \in 1..Len(DataLines) : DataLines[i][2] = i
        /\ object_count = Len(DataLines)
        /\ MergedAll => Len(DataLines) = TotalRows

\* Two batches of three and two rows merged; the last row of the second batch
\* has local object index 1 and ObjectNumber 5.
C6_Witness ==
    /\ merge_pc = "done"
    /\ result_indexes = <<0, 1>>
    /\ Len(result_tables[0].rows) = 3
    /\ Len(result_tables[1].rows) = 2
    /\ result_tables[1].rows[2].object_index = 1
    /\ DataLines[5][2] = 5
    /\ object_count = 5

\* Row j of a table starts a new image: its local image index exceeds 0 and
\* every local image index before it in the table.
StartsImage(rows, j) ==
    /\ rows[j].image_index > 0
    /\ \A i \in 1..(j - 1) : rows[i].image_index < rows[j].image_index

\* The ImageNumber column of a merge of the first n batches of result_indexes:
\* a row's number is the images of the batches before plus the rows of its own
\* batch, up to it, that start a new image.
RECURSIVE ExpectedImageNumbers(_)
ExpectedImageNumbers(n) ==
    IF n = 0 THEN <<>>
    ELSE LET before == ExpectedImageNumbers(n - 1)
             base == IF before = <<>> THEN 0 ELSE before[Len(before)]
             rows == result_tables[result_indexes[n]].rows
         IN  before \o
             [j \in 1..Len(rows) |->
                 base + Cardinality({i \in 1..j : StartsImage(rows, i)})]

\* The local image indexes of a table, in row order.
LocalIndexes(k) ==
    [j \in 1..Len(result_tables[k].rows) |-> result_tables[k].rows[j].image_index]

\* C7: the ImageNumber of a merged row is the global image_count, which
\* starts at 0, goes on across the batches and grows by one exactly at a row
\* whose local image index exceeds every one before it in its batch (the mark
\* starting again at 0 in each batch).  Batches 0 and 1 with local indexes
\* 1,1,2 and 1,2 merge to (1,1),(1,2),(2,3),(3,4),(4,5).
C7_ImageNumbers ==
    merged_csv.exists =>
        /\ [i \in 1..Len(DataLines) |-> DataLines[i][1]]
              = ExpectedImageNumbers(BatchesDone)
        /\ image_count = IF DataLines = <<>> THEN 0
                         ELSE DataLines[Len(DataLines)][1]
        /\ (/\ MergedAll
            /\ result_indexes = <<0, 1>>
            /\ LocalIndexes(0) = <<1, 1, 2>>
            /\ LocalIndexes(1) = <<1, 2>>)
              => [i \in 1..Len(DataLines) |-> <<DataLines[i][1], DataLines[i][2]>>]
                    = << <<1, 1>>, <<1, 2>>, <<2, 3>>, <<3, 4>>, <<4, 5>> >>

\* The example of the claim, merged.
C7_Witness ==
    /\ merge_pc = "done"
    /\ result_indexes = <<0, 1>>
    /\ LocalIndexes(0) = <<1, 1, 2>>
    /\ LocalIndexes(1) = <<1, 2>>
    /\ Len(DataLines) = 5
    /\ image_count = 4

\* Two merged rows have the same ImageNumber exactly when they come from the
\* same batch and have the same local image index.
OneToOne ==
    merged_csv.exists =>
        \A i, j \in 1..Len(DataLines) :
            (DataLines[i][1] = DataLines[j][1])
                <=> (/\ BatchOf(DataLines[i]) = BatchOf(DataLines[j])
                     /\ LocalImageIndex(DataLines[i]) = LocalImageIndex(DataLines[j]))

\* C8, as claimed: for any result tables two merged rows have the same
\* ImageNumber exactly when they come from the same batch and have the same
\* local image index.
C8_OneToOneAnyTables == OneToOne

\* In every table the local image indexes are at least 1 and never decrease
\* from a row to the next.
TablesSorted ==
    \A k \in DOMAIN result_tables :
        \A j \in 1..Len(result_tables[k].rows) :
            /\ result_tables[k].rows[j].image_index >= 1
            /\ \A i \in 1..(j - 1) :
                  result_tables[k].rows[i].image_index
                      <= result_tables[k].rows[j].image_index

\* C8, amended: when in every table the local image indexes are at least 1
\* and never decrease from a row to the next, two merged rows have the same
\* ImageNumber exactly when they come from the same batch and have the same
\* local image index.
C8_OneToOneSortedTables == TablesSorted => OneToOne

\* Two sorted batches merged: two rows of one image share an ImageNumber, and
\* rows with local index 1 of the two batches do not.
C8_Witness ==
    /\ merge_pc = "done"
    /\ TablesSorted
    /\ result_indexes = <<0, 1>>
    /\ LocalIndexes(0) = <<1, 1, 2>>
    /\ LocalIndexes(1) = <<1, 1>>
    /\ DataLines[1][1] = DataLines[2][1]
    /\ DataLines[1][1] # DataLines[4][1]

\* C9: the tables are read in increasing batch-index order whatever the order
\* of the listing: the merged rows are in batch order and, within a batch, in
\* the order of its table.
C9_ReadInIndexOrder ==
    merged_csv.exists =>
        \A i, j \in 1..Len(DataLines) :
            i < j =>
               \/ BatchOf(DataLines[i]) < BatchOf(DataLines[j])
               \/ /\ BatchOf(DataLines[i]) = BatchOf(DataLines[j])
                  /\ RowOf(DataLines[i]) < RowOf(DataLines[j])

\* The data rows of the first n batches of result_indexes.
RECURSIVE RowsOfBatches(_)
RowsOfBatches(n) ==
    IF n = 0 THEN 0
    ELSE RowsOfBatches(n - 1) + Len(result_tables[result_indexes[n]].rows)

\* C10: a batch whose header differs from the stored one ends the merge
\* before any of its rows is written: the merged file holds the header once,
\* then the rows of the batches before it and no others, all of them from
\* tables with the stored header.
C10_HeaderMismatchStops ==
    merged_csv.exists =>
        /\ \A i \in 1..BatchesDone :
              result_tables[result_indexes[i]].header = merged_header
        /\ merged_csv.lines # <<>> =>
              /\ merged_csv.lines[1] = merged_header
              /\ merged_header = result_tables[result_indexes[1]].header
        /\ Len(DataLines) = RowsOfBatches(BatchesDone)
        /\ \A i \in 1..Len(DataLines) :
              \E p \in 1..BatchesDone : BatchOf(DataLines[i]) = result_indexes[p]
        /\ merge_error = "AssertionError: header" =>
              /\ index_pos >= 2
              /\ result_tables[result_indexes[index_pos]].header # merged_header

\* Batch 1's header differs from batch 0's: the merge has failed with the
\* header and the rows of batch 0 in the merged file and none of batch 1.
C10_Witness ==
    /\ merge_pc = "failed"
    /\ merge_error = "AssertionError: header"
    /\ result_indexes = <<0, 1>>
    /\ index_pos = 2
    /\ Len(result_tables[0].rows) = 2
    /\ Len(result_tables[1].rows) = 2
    /\ Len(merged_csv.lines) = 3

\* ------------------------------------------------------------ split_images: failure
\* C16: when the filename check of split_images first fails, at position p
\* (from 0) with batch size S, exactly floor(p / S) batch files have been
\* written and remain, set_num is floor(p / S), the files hold the first
\* floor(p / S) * S ImageSets and no others, and the p mod S ImageSets of the
\* unflushed batch are held in memory only.
C16_FailureLeavesFullBatches ==
    split_error = "AssertionError: filenames" =>
        LET n == step \div image_set_size_per_batch
            rows == BatchRows(n)
        IN  /\ split_pc = "failed"
            /\ set_num = n
            /\ DOMAIN csv_files = {CsvFilename(k) : k \in 0..(n - 1)}
            /\ saved_csv_files = [k \in 1..n |-> CsvFilename(k - 1)]
            /\ Len(rows) = n * image_set_size_per_batch
            /\ \A i \in 1..Len(rows) : IsRowOfImageSet(rows[i], i)
            /\ Len(image_set) = step % image_set_size_per_batch

\* Two channels in batches of two: the fourth position is misaligned, so one
\* batch file of two ImageSets is on disk and the third ImageSet is lost.
C16_Witness ==
    /\ split_error = "AssertionError: filenames"
    /\ Cardinality(Channels) = 2
    /\ image_set_size_per_batch = 2
    /\ step = 3
    /\ set_num = 1
    /\ Len(image_set) = 1
    /\ Cardinality(DOMAIN csv_files) = 1

\* ------------------------------------------------------------ merge_object_results: failure
\* C14: a merge that fails on a header mismatch after it has opened its
\* output leaves no file holding a header and data rows at the final path
\* results/<E>.csv.
C14_NoPartialOutputAtFinalPath ==
    (merge_pc = "failed" /\ merge_error = "AssertionError: header") =>
        ~(merged_csv.exists /\ Len(merged_csv.lines) >= 2)

\* ------------------------------------------------------------ merge_results: directory names
\* The most data rows of a result table when the names of the directories
\* vary.
MaxNameRows == 1

\* Names a directory under the results root may have: the ones run_batch
\* makes for the batches 0, 1 and 2, and '00', a second name of the integer 0.
DirNames == {<<"0">>, <<"1">>, <<"2">>, <<"0", "0">>}

\* Whether name is the one str() gives its integer: the directory
\* merge_object_results opens for that index.
IsCanonical(name) == Len(name) = 1

\* merge_results: the results root holds any of DirNames, listed in any
\* order; each directory merge_object_results can open has a result table of
\* at most MaxNameRows rows with the usual header.
MergeNamesInit ==
    /\ images_dir = {}
    /\ image_set_size_per_batch = 1
    /\ SplitFresh
    /\ \E names \in SUBSET DirNames :
          /\ results_dir \in Listings(names)
          /\ LET present == {IntOf(n) : n \in {m \in names : IsCanonical(m)}}
             IN  \E image_indexes \in [present -> SeqsUpTo(ImageIndexes, MaxNameRows)] :
                    result_tables =
                        [k \in present |->
                            ResultTable(k, UsualHeader, image_indexes[k])]
    /\ MergeFresh
    /\ RunFresh
    /\ KeyFresh

SpecMergeNames == MergeNamesInit /\ [][MergeNext]_vars

\* The integers the digit-named directories denote are 0 .. N - 1, each
\* denoted by exactly one name.
ExactRange(listing) ==
    LET indexes == ResultIndexes(listing)
    IN  /\ indexes # <<>>
        /\ \A k \in 0..(Len(indexes) - 1) :
              Cardinality({i \in 1..Len(indexes) : indexes[i] = k}) = 1

\* C11: merge_results writes a merged file only if the digit-named
\* directories under the results root denote exactly the range 0 .. N - 1,
\* without a gap and without two names for one integer; for any other
\* listing it stops before a merged file is opened.
C11_MergeOnlyExactRange ==
    (merged_csv.exists /\ merged_csv.lines # <<>>) => ExactRange(results_dir)

\* ------------------------------------------------------------ run_batches: claims
\* The number N of the batch file image_set_<N>.csv.
BatchNumber(name) == name[2]

\* Distinct batch files were given distinct output directories.
DistinctOutputDirs ==
    \A i, j \in 1..Len(invocations) :
        invocations[i].image_group # invocations[j].image_group
            => invocations[i].output_path # invocations[j].output_path

\* C12: every run of the external tool for a batch file image_set_<N>.csv has
\* the output directory results/<N>, however many batch files there are, and
\* distinct batch files have distinct output directories.
C12_OutputDirIsBatchIndex ==
    /\ \A i \in 1..Len(invocations) :
          invocations[i].output_path = StrOfInt(BatchNumber(invocations[i].image_group))
    /\ DistinctOutputDirs

\* C13: the batches are run one at a time in the order of the sorted list,
\* each at most once; a run with a non-zero exit status is the last one, it
\* ends run_batches with an exception, and run_batches ends normally only
\* after every batch has run with exit status 0.
C13_FailFast ==
    /\ \A i \in 1..Len(invocations) :
          /\ invocations[i].group_index = i - 1
          /\ invocations[i].image_group = run_image_groups[i]
          /\ invocations[i].exit_code # 0 =>
                /\ i = Len(invocations)
                /\ run_pc = "failed"
                /\ run_error = "Exception"
    /\ \A i, j \in 1..Len(invocations) :
          invocations[i].image_group = invocations[j].image_group => i = j
    /\ run_pc = "done" =>
          /\ Len(invocations) = Len(run_image_groups)
          /\ \A i \in 1..Len(invocations) : invocations[i].exit_code = 0
    /\ run_pc = "failed" =>
          /\ invocations # <<>>
          /\ invocations[Len(invocations)].exit_code # 0

\* Three batch files: the second run has ended with exit status 1, and the
\* third batch has not been run.
C13_Witness ==
    /\ run_pc = "failed"
    /\ Len(run_image_groups) = 3
    /\ Len(invocations) = 2
    /\ invocations[1].exit_code = 0
    /\ invocations[2].exit_code = 1
    /\ invocations[2].image_group = CsvFilename(1)

\* ------------------------------------------------------------ get_object_name: claims
\* Some key of the mapping occurs in group_key.
SomeKeyOccurs(group_key) ==
    \E item \in key_mapping : IsSubstring(item[1], TokenChars[group_key])

\* A call fails if and only if no key of the mapping occurs in group_key, and
\* a name returned is the name of a key that occurs in it.
FailsIffNoKeyOccurs ==
    \A i \in 1..Len(key_calls) :
        /\ key_calls[i].object_name = "KeyError"
              <=> ~SomeKeyOccurs(key_calls[i].group_key)
        /\ key_calls[i].object_name # "KeyError" =>
              \E item \in key_mapping :
                 /\ IsSubstring(item[1], TokenChars[key_calls[i].group_key])
                 /\ item[2] = key_calls[i].object_name

\* C15: two calls of get_object_name with the same settings and the same
\* group_key return the same object name, also when several keys occur in
\* group_key; a call fails if and only if no key occurs in it.
C15_SameKeySameName ==
    /\ \A i, j \in 1..Len(key_calls) :
          key_calls[i].group_key = key_calls[j].group_key
              => key_calls[i].object_name = key_calls[j].object_name
    /\ FailsIffNoKeyOccurs

====
